---- MODULE Spec2Model ----
(***************************************************************************)
(* Worker-pool matrix multiplication of src/src/matrix.rs (multiply) with  *)
(* src/src/vector.rs (dot_product): one orchestrator thread, THREAD_NUM    *)
(* worker threads, one mpsc queue per worker, one oneshot reply channel    *)
(* per task.  Further down: the shared counters of src/src/metrics.rs and  *)
(* src/src/metrics/cmap.rs, and the producer/consumer demo of              *)
(* src/examples/thread1.rs, each with a specification of its own.          *)
(***************************************************************************)
EXTENDS Integers, Sequences, FiniteSets, TLC

\* const THREAD_NUM: usize = 4;
THREAD_NUM == 4

\* Bounds of the explored inputs: rows of A, the inner dimension, columns of B,
\* and the number of output cells (tasks) of a call.
MaxRow == 2
MaxInner == 2
MaxCol == 3
MaxCells == 6

\* Matrix::new does not validate: data may be shorter or longer than row*col,
\* here by up to two elements less and one more.
LenDefects == {-2, -1, 0, 1}

Workers == 0 .. (THREAD_NUM - 1)
MaxTasks == MaxCells
TaskIds == 0 .. (MaxTasks - 1)

VARIABLES
    a, b,          \* the two argument matrices of the call
    pc,            \* orchestrator position in multiply
    result,        \* how multiply ended: "none" while running
    out,           \* the returned matrix (Ok path), NoMatrix otherwise
    spawned,       \* number of workers spawned so far (length of senders)
    sendersAlive,  \* the orchestrator still owns the senders Vec
    wst,           \* per worker: thread state
    held,          \* per worker: the Msg taken from the queue, or NoMsg
    queue,         \* per worker: mpsc queue content
    rxAlive,       \* per worker: the mpsc Receiver still exists
    chan,          \* per task index: state of its oneshot channel
    data,          \* the output buffer (data), <<>> before it is allocated
    allocated,     \* data and receivers have been created
    receivers,     \* Vec of oneshot receivers, as task indices, in push order
    ci, cj,        \* loop counters i, j of the map phase
    created,       \* history: per index, number of tasks built
    enq,           \* history: per index, sequence of queues the task was put on
    recvBy,        \* history: per index, sequence of workers that received it
    computed,      \* history: per index, number of dot_product calls
    dotFailed,     \* history: indices whose dot_product returned Err
    consumed,      \* history: per index, sequence of reply indices consumed from its channel
    written,       \* history: per cell, sequence of [from, value] writes
    sendErrs       \* history: per worker, number of failed reply sends

\* The shared counters of src/src/metrics.rs (Metrics) and
\* src/src/metrics/cmap.rs (CmapMetrics), used by threads holding clones.
VARIABLES
    mimpl,         \* which counter type the threads share, "none" when unused
    shardOf,       \* DashMap: the shard each key hashes to
    mdata,         \* per key: [has, n], the entry of the map
    lockW,         \* per shard (Metrics: the one RwLock): writer thread, 0 if none
    lockR,         \* per shard: set of threads holding a read guard
    mpc,           \* per thread: position in inc or snapshot
    mkey,          \* per thread: the key of its inc call
    mtmp,          \* per thread: the count read by *count += 1
    mshard,        \* per thread: the shard its snapshot is cloning
    msnap,         \* per thread: the copy its snapshot has built so far
    mops,          \* number of inc and snapshot calls made so far
    incDone,       \* history: per key, number of completed inc calls
    raced,         \* history: keys first incremented by two threads at once
    seen,          \* history: per thread, map states since its snapshot call
    retSnap        \* history: per thread, the last map returned by snapshot

metricsVars == << mimpl, shardOf, mdata, lockW, lockR, mpc, mkey, mtmp, mshard,
                  msnap, mops, incDone, raced, seen, retSnap >>

\* The producer/consumer demo of src/examples/thread1.rs.
VARIABLES
    dmain,         \* position of main, "idle" when the demo is not run
    dspawned,      \* number of producer threads spawned
    dtxMain,       \* main still owns the original Sender tx
    dprod,         \* per producer: position in producer()
    dloops,        \* number of times a producer went round its loop again
    dqueue,        \* content of the mpsc channel
    dcons,         \* position of the consumer thread
    drecv,         \* per producer: number of its messages the consumer received
    dsent,         \* history: per producer, number of messages sent successfully
    dsecret        \* the value main got from consumer.join(), 0 before

demoVars == << dmain, dspawned, dtxMain, dprod, dloops, dqueue, dcons, drecv,
              dsent, dsecret >>

otherVars == << metricsVars, demoVars >>

multiplyVars == << a, b, pc, result, out, spawned, sendersAlive, wst, held, queue,
                   rxAlive, chan, data, allocated, receivers, ci, cj, created, enq,
                   recvBy, computed, dotFailed, consumed, written, sendErrs >>

vars == << multiplyVars, otherVars >>

orchVars == << pc, result, out, spawned, sendersAlive, data, allocated,
               receivers, ci, cj, created, enq, consumed, written >>
histWorker == << recvBy, computed, dotFailed, sendErrs >>

NoMatrix == [data |-> << >>, row |-> 0, col |-> 0, some |-> FALSE]
NoMsg == [idx |-> 0, row |-> << >>, col |-> << >>, some |-> FALSE]

\* Matrix::new(data, row, col): stores its arguments unchecked.
MatrixNew(d, r, c) == [data |-> d, row |-> r, col |-> c]

\* The test data of test_matrix_multiply: [1, 2, 3, ...].
MkData(n) == [k \in 1 .. n |-> k]

InputsA ==
    { MatrixNew(MkData(r * c + d), r, c) :
        << r, c, d >> \in { t \in (0 .. MaxRow) \X (0 .. MaxInner) \X LenDefects :
                              t[1] * t[2] + t[3] >= 0 } }
InputsB ==
    { MatrixNew(MkData(r * c + d), r, c) :
        << r, c, d >> \in { t \in (0 .. MaxInner) \X (0 .. MaxCol) \X LenDefects :
                              t[1] * t[2] + t[3] >= 0 } }

RECURSIVE SumTo(_, _, _)
SumTo(x, y, n) == IF n = 0 THEN 0 ELSE SumTo(x, y, n - 1) + x[n] * y[n]

\* dot_product(a, b): Err when the lengths differ, else the sum of products.
dot_product(x, y) ==
    IF Len(x) # Len(y)
    THEN [ok |-> FALSE, value |-> 0]
    ELSE [ok |-> TRUE, value |-> SumTo(x, y, Len(x))]

\* &a.data[i * a.col..(i + 1) * a.col]: in range iff (i + 1) * a.col <= len.
RowInRange(m, i) == (i + 1) * m.col <= Len(m.data)
RowSlice(m, i) == SubSeq(m.data, i * m.col + 1, (i + 1) * m.col)

\* b.data[j..].iter().step_by(b.col): in range iff j <= len.
ColInRange(m, j) == j <= Len(m.data)
ColSlice(m, j) ==
    LET n == (Len(m.data) - j + m.col - 1) \div m.col
    IN  [t \in 1 .. n |-> m.data[j + (t - 1) * m.col + 1]]

Zeros(n) == [k \in 1 .. n |-> 0]

\* A oneshot channel: st is "none" (not created), "open", "value" (a reply is
\* stored), "closed" (the Sender was dropped without sending), "taken" (the
\* reply was received) or "undelivered" (send failed, the Receiver was gone);
\* rx says whether the Receiver still exists.
NoChan == [st |-> "none", idx |-> 0, value |-> 0, rx |-> FALSE]

\* const PRODUCERS_NUM: usize = 4;
PRODUCERS_NUM == 4

\* Bound of the demo: how many times, over all producers, the loop of
\* producer() is entered again after its first iteration.
MaxLoops == 1

Producers == 0 .. (PRODUCERS_NUM - 1)
\* rand::random::<usize>(): the value is only carried, one value stands for all.
RandValues == {0}

\* The state of the demo before main runs.
DemoEntry ==
    /\ dspawned = 0
    /\ dtxMain = TRUE
    /\ dprod = [p \in Producers |-> "unspawned"]
    /\ dloops = 0
    /\ dqueue = << >>
    /\ dcons = "unspawned"
    /\ drecv = [p \in Producers |-> 0]
    /\ dsent = [p \in Producers |-> 0]
    /\ dsecret = 0

\* The demo is not run.
DemoIdle == dmain = "idle" /\ DemoEntry

\* Bounds of the counter model: threads sharing the counters, and calls made
\* by all of them together.
MetricThreads == 2
MaxCalls == 3

MThreads == 1 .. MetricThreads
Keys == {"k1", "k2"}
\* Two keys of a DashMap hash to one shard or to two: two shards show both.
Shards == {0, 1}

\* A map entry: has is FALSE while the key is not in the map.
NoEntry == [has |-> FALSE, n |-> 0]
EmptyMap == [k \in Keys |-> NoEntry]
NoSnap == [some |-> FALSE, map |-> EmptyMap]

\* Metrics::new() / CmapMetrics::new(): an empty map, no lock held.
MetricsNew ==
    /\ mdata = EmptyMap
    /\ lockW = [s \in Shards |-> 0]
    /\ lockR = [s \in Shards |-> {}]
    /\ mpc = [t \in MThreads |-> "idle"]
    /\ mkey = [t \in MThreads |-> "k1"]
    /\ mtmp = [t \in MThreads |-> 0]
    /\ mshard = [t \in MThreads |-> 0]
    /\ msnap = [t \in MThreads |-> EmptyMap]
    /\ mops = 0
    /\ incDone = [k \in Keys |-> 0]
    /\ raced = {}
    /\ seen = [t \in MThreads |-> {}]
    /\ retSnap = [t \in MThreads |-> NoSnap]

\* No counter object exists (the multiplication does not use one).
MetricsIdle ==
    /\ mimpl = "none"
    /\ shardOf = [k \in Keys |-> 0]
    /\ MetricsNew

\* The state of a call before its first statement.
CallEntry ==
    /\ result = "none"
    /\ out = NoMatrix
    /\ spawned = 0
    /\ sendersAlive = FALSE
    /\ wst = [w \in Workers |-> "unspawned"]
    /\ held = [w \in Workers |-> NoMsg]
    /\ queue = [w \in Workers |-> << >>]
    /\ rxAlive = [w \in Workers |-> FALSE]
    /\ chan = [k \in TaskIds |-> NoChan]
    /\ data = << >>
    /\ allocated = FALSE
    /\ receivers = << >>
    /\ ci = 0
    /\ cj = 0
    /\ created = [k \in TaskIds |-> 0]
    /\ enq = [k \in TaskIds |-> << >>]
    /\ recvBy = [k \in TaskIds |-> << >>]
    /\ computed = [k \in TaskIds |-> 0]
    /\ dotFailed = {}
    /\ consumed = [k \in TaskIds |-> << >>]
    /\ written = [k \in TaskIds |-> << >>]
    /\ sendErrs = [w \in Workers |-> 0]

\* No call of multiply is in progress.
MultiplyIdle ==
    /\ a = MatrixNew(<< >>, 0, 0)
    /\ b = MatrixNew(<< >>, 0, 0)
    /\ pc = "idle"
    /\ CallEntry

Init ==
    /\ MetricsIdle
    /\ DemoIdle
    /\ a \in InputsA
    /\ b \in InputsB
    /\ a.row * b.col <= MaxCells
    /\ pc = "start"
    /\ CallEntry

Range(s) == { s[n] : n \in 1 .. Len(s) }

\* Dropping a set of oneshot Receivers.
DropReceivers(ch, S) ==
    [k \in TaskIds |-> IF k \in S THEN [ch[k] EXCEPT !.rx = FALSE] ELSE ch[k]]

\* Variant: dropped Senders leave their channels open.
DropSenders_Leak(ch, S) == ch
\* Dropping a set of oneshot Senders that never sent.
DropSenders(ch, S) ==
    [k \in TaskIds |-> IF k \in S /\ ch[k].st = "open"
                       THEN [ch[k] EXCEPT !.st = "closed"] ELSE ch[k]]

\* Variant: the dimension check is missing.
CheckDim_Unchecked ==
    /\ pc = "start"
    /\ pc' = "spawn"
    /\ UNCHANGED << otherVars, a, b, result, out, spawned, sendersAlive, wst, held, queue,
                    rxAlive, chan, data, allocated, receivers, ci, cj, created,
                    enq, consumed, written, histWorker >>

\* if a.col != b.row { anyhow::bail!(...) }
CheckDim ==
    /\ pc = "start"
    /\ IF a.col # b.row
       THEN /\ pc' = "done"
            /\ result' = "DimErr"
       ELSE /\ pc' = "spawn"
            /\ result' = result
    /\ UNCHANGED << otherVars, a, b, out, spawned, sendersAlive, wst, held, queue, rxAlive,
                    chan, data, allocated, receivers, ci, cj, created, enq,
                    consumed, written, histWorker >>

\* One iteration of (0..THREAD_NUM).map(|_| { channel(); thread::spawn(..); tx }).
SpawnWorker ==
    /\ pc = "spawn"
    /\ spawned < THREAD_NUM
    /\ wst' = [wst EXCEPT ![spawned] = "waiting"]
    /\ rxAlive' = [rxAlive EXCEPT ![spawned] = TRUE]
    /\ spawned' = spawned + 1
    /\ sendersAlive' = TRUE
    /\ pc' = IF spawned + 1 = THREAD_NUM THEN "alloc" ELSE "spawn"
    /\ UNCHANGED << otherVars, a, b, result, out, held, queue, chan, data, allocated,
                    receivers, ci, cj, created, enq, consumed, written,
                    histWorker >>

\* matrix_len, data = vec![T::default(); matrix_len], receivers; loop entry.
Alloc ==
    /\ pc = "alloc"
    /\ data' = Zeros(a.row * b.col)
    /\ allocated' = TRUE
    /\ receivers' = << >>
    /\ ci' = 0
    /\ cj' = 0
    /\ pc' = IF a.row = 0 \/ b.col = 0 THEN "reduce" ELSE "map"
    /\ UNCHANGED << otherVars, a, b, result, out, spawned, sendersAlive, wst, held, queue,
                    rxAlive, chan, created, enq, consumed, written, histWorker >>

\* Routing: the task with index idx goes to senders[idx % THREAD_NUM].
RouteOf(idx) == idx % THREAD_NUM

\* Variant: the senders outlive the call.
Teardown_KeepSenders ==
    /\ sendersAlive' = sendersAlive
    /\ receivers' = << >>
\* What leaving multiply does (return or unwind): the remaining receivers,
\* data and senders are dropped.
Teardown ==
    /\ sendersAlive' = FALSE
    /\ receivers' = << >>

\* One iteration of the map phase, lines 69-84, or the panic of a slice
\* index out of range. senders[w].send(msg): Ok appends to the queue; Err when
\* the worker's Receiver is gone, and the returned Msg (with its oneshot
\* Sender) is dropped at the end of the if-let.
Submit ==
    /\ pc = "map"
    /\ IF ~RowInRange(a, ci) \/ ~ColInRange(b, cj)
       THEN /\ pc' = "done"
            /\ result' = "Panic"
            /\ Teardown
            /\ chan' = DropReceivers(chan, Range(receivers))
            /\ UNCHANGED << queue, ci, cj, created, enq >>
       ELSE LET idx == ci * b.col + cj
                w == RouteOf(idx)
                msg == [idx |-> idx, row |-> RowSlice(a, ci),
                        col |-> ColSlice(b, cj), some |-> TRUE]
                last == (cj + 1 = b.col) /\ (ci + 1 = a.row)
            IN  /\ created' = [created EXCEPT ![idx] = @ + 1]
                /\ IF rxAlive[w]
                   THEN /\ queue' = [queue EXCEPT ![w] = Append(@, msg)]
                        /\ enq' = [enq EXCEPT ![idx] = Append(@, w)]
                        /\ chan' = [chan EXCEPT ![idx] =
                                      [st |-> "open", idx |-> 0, value |-> 0, rx |-> TRUE]]
                   ELSE /\ queue' = queue
                        /\ enq' = enq
                        /\ chan' = [chan EXCEPT ![idx] =
                                      [st |-> "closed", idx |-> 0, value |-> 0, rx |-> TRUE]]
                /\ receivers' = Append(receivers, idx)
                /\ cj' = IF cj + 1 = b.col THEN 0 ELSE cj + 1
                /\ ci' = IF cj + 1 = b.col THEN ci + 1 ELSE ci
                /\ pc' = IF last THEN "reduce" ELSE "map"
                /\ UNCHANGED << result, sendersAlive >>
    /\ UNCHANGED << otherVars, a, b, out, spawned, wst, held, rxAlive, data, allocated,
                    consumed, written, histWorker >>

\* Variant: a receive that does not wait (try_recv).
RecvReady_TryRecv(ch) == TRUE
\* rx.recv() on a oneshot Receiver blocks while the channel is open and empty.
RecvReady(ch) == ch.st \in {"value", "closed"}

\* Variant: the receive error is ignored and the default reply is used.
RecvOutcome_Unchecked(ch) == "Ok"
\* rx.recv(): Ok(reply) when a reply is stored, Err when the Sender is gone.
RecvOutcome(ch) == IF ch.st = "value" THEN "Ok" ELSE "Err"

\* One iteration of the reduce phase: rx.recv()? blocks until the channel holds
\* a reply or its Sender is gone; data[rst.idx] = rst.value.
Collect ==
    /\ pc = "reduce"
    /\ receivers # << >>
    /\ LET k == Head(receivers)
       IN  /\ RecvReady(chan[k])
           /\ IF RecvOutcome(chan[k]) = "Ok"
              THEN /\ data' = [data EXCEPT ![chan[k].idx + 1] = chan[k].value]
                   /\ written' = [written EXCEPT ![chan[k].idx] =
                                    Append(@, [from |-> k, value |-> chan[k].value])]
                   /\ consumed' = [consumed EXCEPT ![k] = Append(@, chan[k].idx)]
                   /\ chan' = [chan EXCEPT ![k].st = "taken", ![k].rx = FALSE]
                   /\ receivers' = Tail(receivers)
                   /\ UNCHANGED << pc, result, sendersAlive >>
              ELSE /\ pc' = "done"
                   /\ result' = "RecvErr"
                   /\ Teardown
                   /\ chan' = DropReceivers(chan, Range(receivers))
                   /\ UNCHANGED << data, written, consumed >>
    /\ UNCHANGED << otherVars, a, b, out, spawned, wst, held, queue, rxAlive, allocated,
                    ci, cj, created, enq, histWorker >>

\* Variant: Ok is returned while receivers are still to be read.
ReturnOk_Early ==
    /\ pc = "reduce"
    /\ out' = [data |-> data, row |-> a.row, col |-> b.col, some |-> TRUE]
    /\ result' = "Ok"
    /\ pc' = "done"
    /\ Teardown
    /\ UNCHANGED << otherVars, a, b, spawned, wst, held, queue, rxAlive, chan, data,
                    allocated, ci, cj, created, enq, consumed, written,
                    histWorker >>

\* Ok(Matrix { data, row: a.row, col: b.col }); senders is dropped.
ReturnOk ==
    /\ pc = "reduce"
    /\ receivers = << >>
    /\ out' = [data |-> data, row |-> a.row, col |-> b.col, some |-> TRUE]
    /\ result' = "Ok"
    /\ pc' = "done"
    /\ Teardown
    /\ UNCHANGED << otherVars, a, b, spawned, wst, held, queue, rxAlive, chan, data,
                    allocated, ci, cj, created, enq, consumed, written,
                    histWorker >>

\* Variant: the received Msg stays in the queue.
Dequeue_Peek(q) == q
\* What an mpsc queue holds after its Receiver took the head.
Dequeue(q) == Tail(q)

\* for msg in rx: the next Msg of the queue.
WorkerRecv(w) ==
    /\ wst[w] = "waiting"
    /\ queue[w] # << >>
    /\ held' = [held EXCEPT ![w] = Head(queue[w])]
    /\ queue' = [queue EXCEPT ![w] = Dequeue(@)]
    /\ wst' = [wst EXCEPT ![w] = "holding"]
    /\ recvBy' = [recvBy EXCEPT ![Head(queue[w]).idx] = Append(@, w)]
    /\ UNCHANGED << otherVars, a, b, orchVars, rxAlive, chan, computed, dotFailed, sendErrs >>

\* Variant: the reply does not carry the task's index.
ReplyIdx_Zero(msg) == 0
\* The index a worker puts in its reply: idx: msg.input.idx.
ReplyIdx(msg) == msg.idx

\* Loop body, lines 47-53: dot_product(..)? returns from the thread closure on
\* Err (dropping msg, rx and what rx still queues); else msg.sender.send(MsgOutput).
WorkerCompute(w) ==
    /\ wst[w] = "holding"
    /\ LET msg == held[w]
           r == dot_product(msg.row, msg.col)
       IN  /\ computed' = [computed EXCEPT ![msg.idx] = @ + 1]
           /\ held' = [held EXCEPT ![w] = NoMsg]
           /\ IF ~r.ok
              THEN /\ dotFailed' = dotFailed \cup {msg.idx}
                   /\ wst' = [wst EXCEPT ![w] = "failed"]
                   /\ rxAlive' = [rxAlive EXCEPT ![w] = FALSE]
                   /\ queue' = [queue EXCEPT ![w] = << >>]
                   /\ chan' = DropSenders(chan, {msg.idx} \cup
                                 { queue[w][n].idx : n \in 1 .. Len(queue[w]) })
                   /\ UNCHANGED sendErrs
              ELSE /\ dotFailed' = dotFailed
                   /\ wst' = [wst EXCEPT ![w] = "waiting"]
                   /\ IF chan[msg.idx].rx
                      THEN /\ chan' = [chan EXCEPT ![msg.idx] =
                                         [st |-> "value", idx |-> ReplyIdx(msg),
                                          value |-> r.value, rx |-> TRUE]]
                           /\ UNCHANGED sendErrs
                      ELSE /\ chan' = [chan EXCEPT ![msg.idx].st = "undelivered"]
                           /\ sendErrs' = [sendErrs EXCEPT ![w] = @ + 1]
                   /\ UNCHANGED << rxAlive, queue >>
    /\ UNCHANGED << otherVars, a, b, orchVars, recvBy >>

\* Variant: the iteration ends as soon as every Sender is gone.
WorkerExit_NoDrain(w) ==
    /\ wst[w] = "waiting"
    /\ ~sendersAlive
    /\ wst' = [wst EXCEPT ![w] = "exited"]
    /\ rxAlive' = [rxAlive EXCEPT ![w] = FALSE]
    /\ UNCHANGED << otherVars, a, b, orchVars, held, queue, chan, histWorker >>

\* The iteration over rx ends: every Sender is gone and the queue is empty.
WorkerExit(w) ==
    /\ wst[w] = "waiting"
    /\ queue[w] = << >>
    /\ ~sendersAlive
    /\ wst' = [wst EXCEPT ![w] = "exited"]
    /\ rxAlive' = [rxAlive EXCEPT ![w] = FALSE]
    /\ UNCHANGED << otherVars, a, b, orchVars, held, queue, chan, histWorker >>

Orchestrator == CheckDim \/ SpawnWorker \/ Alloc \/ Submit \/ Collect \/ ReturnOk
Worker(w) == WorkerRecv(w) \/ WorkerCompute(w) \/ WorkerExit(w)

Next ==
    \/ CheckDim
    \/ SpawnWorker
    \/ Alloc
    \/ Submit
    \/ Collect
    \/ ReturnOk
    \/ \E w \in Workers : WorkerRecv(w)
    \/ \E w \in Workers : WorkerCompute(w)
    \/ \E w \in Workers : WorkerExit(w)

Spec == Init /\ [][Next]_vars

\* Threads are scheduled by the operating system: a thread that can take a
\* step eventually takes one.
FairSpec ==
    /\ Spec
    /\ WF_vars(Orchestrator)
    /\ \A w \in Workers : WF_vars(Worker(w))

----------------------------------------------------------------------------
(* Reference results, computed from the arguments alone. *)

WellFormed(m) == Len(m.data) = m.row * m.col

RECURSIVE CellSum(_, _, _, _, _)
CellSum(ma, mb, i, j, n) ==
    IF n = 0 THEN 0
    ELSE CellSum(ma, mb, i, j, n - 1)
         + ma.data[i * ma.col + n] * mb.data[(n - 1) * mb.col + j + 1]

\* The naive triple loop over well-formed matrices.
Naive(ma, mb) ==
    [k \in 1 .. (ma.row * mb.col) |->
        CellSum(ma, mb, (k - 1) \div mb.col, (k - 1) % mb.col, ma.col)]

Cells == 0 .. (a.row * b.col - 1)
Finished == pc = "done" /\ \A w \in Workers : wst[w] \in {"unspawned", "exited", "failed"}

\* C1: for A (r x k), B (k x c) with A.col = B.row and data lengths row*col,
\* multiply returns Ok with row r, col c and the naive triple-loop data.
C1_MultiplyEqualsNaive ==
    (pc = "done" /\ a.col = b.row /\ WellFormed(a) /\ WellFormed(b))
        => /\ result = "Ok"
           /\ out.row = a.row
           /\ out.col = b.col
           /\ out.data = Naive(a, b)

\* C2: once a worker's dot_product has failed, multiply returns an error to
\* its caller (and no Ok matrix).
C2_DotFailureReturnsError ==
    (pc = "done" /\ dotFailed # {}) => (result = "RecvErr" /\ ~out.some)

\* C3: a failed dot_product is answered on the task's reply channel and does
\* not terminate the worker; no task of that worker loses its reply.
C3_FailureRepliedWorkerSurvives ==
    /\ \A k \in dotFailed : chan[k].st \in {"value", "taken", "undelivered"}
    /\ \A w \in Workers : wst[w] # "failed"
    /\ Finished => \A k \in TaskIds : enq[k] # << >> => computed[k] = 1

\* C4: a receive on a reply channel closed without a value completes with an
\* error, and once a reply channel is closed without a value multiply ends in
\* failure instead of waiting forever.
C4_ClosedReplyFailsMultiply ==
    /\ [][(pc = "reduce" /\ receivers # << >>
             /\ chan[Head(receivers)].st = "closed" /\ receivers' # receivers)
            => (pc' = "done" /\ result' = "RecvErr")]_vars
    /\ (\E k \in TaskIds : chan[k].st = "closed" /\ pc # "done")
          ~> (pc = "done" /\ result \in {"RecvErr", "Panic"})

\* A task that could not be enqueued (its worker had already gone) made
\* multiply fail at its receive.
C4_Witness ==
    /\ pc = "done"
    /\ result = "RecvErr"
    /\ \E k \in TaskIds : created[k] = 1 /\ enq[k] = << >> /\ chan[k].st = "closed"

\* C5: with A.col # B.row multiply fails with the dimension error before any
\* work: no worker, no channel, no task, no buffer, no matrix.
C5_DimMismatchNoWork ==
    (a.col # b.row /\ pc # "start")
        => /\ pc = "done"
           /\ result = "DimErr"
           /\ spawned = 0
           /\ ~sendersAlive
           /\ \A w \in Workers : wst[w] = "unspawned" /\ ~rxAlive[w] /\ queue[w] = << >>
           /\ \A k \in TaskIds : chan[k] = NoChan /\ created[k] = 0 /\ enq[k] = << >>
           /\ ~allocated
           /\ data = << >>
           /\ receivers = << >>
           /\ ~out.some

C5_Witness ==
    /\ pc = "done"
    /\ result = "DimErr"
    /\ a.row = 2 /\ a.col = 1 /\ b.row = 2 /\ b.col = 2

RepliesFor(idx) ==
    Cardinality({ kn \in TaskIds \X (1 .. MaxTasks) :
                    kn[2] <= Len(consumed[kn[1]]) /\ consumed[kn[1]][kn[2]] = idx })

\* C6: in a multiply call over an r x c output, every index in [0, r*c) has
\* exactly one task created and exactly one reply carrying it consumed.
C6_OneTaskOneReplyPerIndex ==
    (pc = "done" /\ a.col = b.row)
        => \A idx \in Cells : created[idx] = 1 /\ RepliesFor(idx) = 1

\* The dot product of the task with linear index k, from the arguments.
TaskValue(k) ==
    dot_product(RowSlice(a, k \div b.col), ColSlice(b, k % b.col)).value

\* C7: a reply on task k's channel carries index k, and cell idx is only ever
\* written from task idx's channel with task idx's value.
C7_NoCrossAssignment ==
    \A k \in TaskIds :
        /\ chan[k].st \in {"value", "taken"} => chan[k].idx = k
        /\ \A n \in 1 .. Len(written[k]) :
              written[k][n].from = k /\ written[k][n].value = TaskValue(k)
        /\ (allocated /\ k \in Cells) =>
              data[k + 1] = IF written[k] = << >> THEN 0 ELSE TaskValue(k)

\* Task 2 completed before task 1, and cell 0 is already written.
C7_Witness ==
    /\ written[0] # << >>
    /\ data[1] # 0
    /\ chan[1].st = "open"
    /\ chan[2].st = "value"

\* What one thread running the same slicing and dot products in index order
\* gets from the arguments.
PanicCells(ma, mb) ==
    { k \in 0 .. (ma.row * mb.col - 1) :
        ~RowInRange(ma, k \div mb.col) \/ ~ColInRange(mb, k % mb.col) }
CellDot(ma, mb, k) == dot_product(RowSlice(ma, k \div mb.col), ColSlice(mb, k % mb.col))
Expected(ma, mb) ==
    IF ma.col # mb.row THEN [result |-> "DimErr", out |-> NoMatrix]
    ELSE IF PanicCells(ma, mb) # {} THEN [result |-> "Panic", out |-> NoMatrix]
    ELSE IF \E k \in 0 .. (ma.row * mb.col - 1) : ~CellDot(ma, mb, k).ok
         THEN [result |-> "RecvErr", out |-> NoMatrix]
    ELSE [result |-> "Ok",
          out |-> [data |-> [k \in 1 .. (ma.row * mb.col) |-> CellDot(ma, mb, k - 1).value],
                   row |-> ma.row, col |-> mb.col, some |-> TRUE]]

\* C8: the outcome of multiply (the Ok matrix, or the kind of failure) is a
\* function of its arguments alone, whatever the worker schedule: any two
\* calls with the same arguments end the same way.
C8_OutcomeDependsOnInputsOnly ==
    pc = "done" => [result |-> result, out |-> out] = Expected(a, b)

\* A failed call in which one cell was already written and a worker finished a
\* task only after multiply had returned.
C8_Witness ==
    /\ pc = "done"
    /\ result = "RecvErr"
    /\ \E k \in TaskIds : written[k] # << >>
    /\ \E w \in Workers : sendErrs[w] > 0

\* C9: every spawned worker thread eventually terminates.
C9_WorkersTerminate ==
    (\E w \in Workers : wst[w] # "unspawned")
        ~> (\A w \in Workers : wst[w] \in {"exited", "failed"})

\* After an early error return every worker is gone, one by its own failure,
\* the others because their queue was closed.
C9_Witness ==
    /\ pc = "done"
    /\ result = "RecvErr"
    /\ \A w \in Workers : wst[w] \in {"exited", "failed"}
    /\ \E w \in Workers : wst[w] = "exited" /\ sendErrs[w] > 0

\* C10: task idx is put on the queue of worker idx mod THREAD_NUM only, and is
\* received exactly once, by that worker.
C10_RoutedAndReceivedOnce ==
    /\ \A k \in TaskIds :
          \A n \in 1 .. Len(enq[k]) : enq[k][n] = RouteOf(k)
    /\ Finished =>
          \A k \in TaskIds :
              created[k] = 1 => enq[k] = << RouteOf(k) >> /\ recvBy[k] = << RouteOf(k) >>
(***************************************************************************)
(* The shared counters: Metrics (src/src/metrics.rs), one RwLock around a  *)
(* HashMap, and CmapMetrics (src/src/metrics/cmap.rs), a DashMap, whose    *)
(* keys are spread over shards with one RwLock each.  The RwLock of        *)
(* Metrics is lock 0; ShardOf gives the lock that guards a key.            *)
(***************************************************************************)
ShardsOf(impl) == IF impl = "Metrics" THEN {0} ELSE Shards
ShardOf(k) == IF mimpl = "Metrics" THEN 0 ELSE shardOf[k]

MetricsInit ==
    /\ mimpl \in {"Metrics", "CmapMetrics"}
    /\ shardOf \in IF mimpl = "Metrics" THEN {[k \in Keys |-> 0]} ELSE [Keys -> Shards]
    /\ MetricsNew
    /\ MultiplyIdle
    /\ DemoIdle

SnapPhases == {"snap_lock", "snap_clone", "snap_unlock"}
IncPhases == {"inc_lock", "inc_entry", "inc_add", "inc_unlock"}

\* History: every map state that exists while a snapshot call is running.
Observe(m) == [u \in MThreads |-> IF mpc[u] \in SnapPhases THEN seen[u] \cup {m} ELSE seen[u]]

\* Variant: the write lock excludes nobody.
CanWrite_NoExclusion(s) == TRUE

\* RwLock::write() / the shard lock of DashMap::entry: no reader, no writer.
CanWrite(s) == lockW[s] = 0 /\ lockR[s] = {}

\* RwLock::read(): no writer.
CanRead(s) == lockW[s] = 0

\* A thread calls inc(key).
CallInc(t, k) ==
    /\ mpc[t] = "idle"
    /\ mops < MaxCalls
    /\ mpc' = [mpc EXCEPT ![t] = "inc_lock"]
    /\ mkey' = [mkey EXCEPT ![t] = k]
    /\ mops' = mops + 1
    /\ UNCHANGED << multiplyVars, demoVars, mimpl, shardOf, mdata, lockW, lockR, mtmp, mshard,
                    msnap, incDone, raced, seen, retSnap >>

\* self.data.write() / self.data.entry(key): take the lock of the key.
IncLock(t) ==
    /\ mpc[t] = "inc_lock"
    /\ CanWrite(ShardOf(mkey[t]))
    /\ lockW' = [lockW EXCEPT ![ShardOf(mkey[t])] = t]
    /\ mpc' = [mpc EXCEPT ![t] = "inc_entry"]
    /\ raced' = IF /\ ~mdata[mkey[t]].has
                   /\ \E u \in MThreads \ {t} : mpc[u] = "inc_lock" /\ mkey[u] = mkey[t]
                THEN raced \cup {mkey[t]} ELSE raced
    /\ UNCHANGED << multiplyVars, demoVars, mimpl, shardOf, mdata, lockR, mkey, mtmp, mshard,
                    msnap, mops, incDone, seen, retSnap >>

\* entry(key).or_insert(0), and the load of *count += 1.
IncEntry(t) ==
    /\ mpc[t] = "inc_entry"
    /\ LET k == mkey[t]
           e == IF mdata[k].has THEN mdata[k] ELSE [has |-> TRUE, n |-> 0]
           m == [mdata EXCEPT ![k] = e]
       IN  /\ mdata' = m
           /\ mtmp' = [mtmp EXCEPT ![t] = e.n]
           /\ seen' = Observe(m)
    /\ mpc' = [mpc EXCEPT ![t] = "inc_add"]
    /\ UNCHANGED << multiplyVars, demoVars, mimpl, shardOf, lockW, lockR, mkey, mshard, msnap,
                    mops, incDone, raced, retSnap >>

\* The store of *count += 1.
IncAdd(t) ==
    /\ mpc[t] = "inc_add"
    /\ LET m == [mdata EXCEPT ![mkey[t]].n = mtmp[t] + 1]
       IN  /\ mdata' = m
           /\ seen' = Observe(m)
    /\ mpc' = [mpc EXCEPT ![t] = "inc_unlock"]
    /\ UNCHANGED << multiplyVars, demoVars, mimpl, shardOf, lockW, lockR, mkey, mtmp, mshard,
                    msnap, mops, incDone, raced, retSnap >>

\* The guard is dropped and inc returns.
IncUnlock(t) ==
    /\ mpc[t] = "inc_unlock"
    /\ lockW' = [lockW EXCEPT ![ShardOf(mkey[t])] = 0]
    /\ incDone' = [incDone EXCEPT ![mkey[t]] = @ + 1]
    /\ mpc' = [mpc EXCEPT ![t] = "idle"]
    /\ UNCHANGED << multiplyVars, demoVars, mimpl, shardOf, mdata, lockR, mkey, mtmp, mshard,
                    msnap, mops, raced, seen, retSnap >>

\* A thread calls snapshot().
CallSnapshot(t) ==
    /\ mpc[t] = "idle"
    /\ mops < MaxCalls
    /\ mpc' = [mpc EXCEPT ![t] = "snap_lock"]
    /\ mops' = mops + 1
    /\ mshard' = [mshard EXCEPT ![t] = 0]
    /\ msnap' = [msnap EXCEPT ![t] = EmptyMap]
    /\ seen' = [seen EXCEPT ![t] = {mdata}]
    /\ retSnap' = [retSnap EXCEPT ![t] = NoSnap]
    /\ UNCHANGED << multiplyVars, demoVars, mimpl, shardOf, mdata, lockW, lockR, mkey, mtmp,
                    incDone, raced >>

\* self.data.read() / DashMap::clone: shard.read() of the next shard.
SnapLock(t) ==
    /\ mpc[t] = "snap_lock"
    /\ CanRead(mshard[t])
    /\ lockR' = [lockR EXCEPT ![mshard[t]] = @ \cup {t}]
    /\ mpc' = [mpc EXCEPT ![t] = "snap_clone"]
    /\ UNCHANGED << multiplyVars, demoVars, mimpl, shardOf, mdata, lockW, mkey, mtmp, mshard,
                    msnap, mops, incDone, raced, seen, retSnap >>

\* The entries guarded by the held lock are cloned.
SnapClone(t) ==
    /\ mpc[t] = "snap_clone"
    /\ msnap' = [msnap EXCEPT ![t] =
                    [k \in Keys |-> IF ShardOf(k) = mshard[t] THEN mdata[k] ELSE @[k]]]
    /\ mpc' = [mpc EXCEPT ![t] = "snap_unlock"]
    /\ UNCHANGED << multiplyVars, demoVars, mimpl, shardOf, mdata, lockW, lockR, mkey, mtmp,
                    mshard, mops, incDone, raced, seen, retSnap >>

\* The read guard is dropped; DashMap::clone goes on to the next shard, and
\* snapshot returns after the last one.
SnapUnlock(t) ==
    /\ mpc[t] = "snap_unlock"
    /\ lockR' = [lockR EXCEPT ![mshard[t]] = @ \ {t}]
    /\ IF mshard[t] + 1 \in ShardsOf(mimpl)
       THEN /\ mshard' = [mshard EXCEPT ![t] = @ + 1]
            /\ mpc' = [mpc EXCEPT ![t] = "snap_lock"]
            /\ UNCHANGED retSnap
       ELSE /\ mpc' = [mpc EXCEPT ![t] = "idle"]
            /\ retSnap' = [retSnap EXCEPT ![t] = [some |-> TRUE, map |-> msnap[t]]]
            /\ UNCHANGED mshard
    /\ UNCHANGED << multiplyVars, demoVars, mimpl, shardOf, mdata, lockW, mkey, mtmp, msnap,
                    mops, incDone, raced, seen >>

MetricsNext ==
    \/ \E t \in MThreads, k \in Keys : CallInc(t, k)
    \/ \E t \in MThreads : IncLock(t)
    \/ \E t \in MThreads : IncEntry(t)
    \/ \E t \in MThreads : IncAdd(t)
    \/ \E t \in MThreads : IncUnlock(t)
    \/ \E t \in MThreads : CallSnapshot(t)
    \/ \E t \in MThreads : SnapLock(t)
    \/ \E t \in MThreads : SnapClone(t)
    \/ \E t \in MThreads : SnapUnlock(t)

MetricsSpec == MetricsInit /\ [][MetricsNext]_vars

\* The count a reader finds under a key: 0 while the key is absent.
CountOf(k) == IF mdata[k].has THEN mdata[k].n ELSE 0

\* C11: inc is atomic per key, for Metrics and for CmapMetrics: whenever no
\* inc(k) is in progress, key k holds exactly the number of completed inc(k)
\* calls, and it is in the map iff there was at least one.
C11_IncAtomicPerKey ==
    \A k \in Keys :
        (\A t \in MThreads : ~(mpc[t] \in IncPhases /\ mkey[t] = k))
            => /\ CountOf(k) = incDone[k]
               /\ mdata[k].has = (incDone[k] > 0)

\* Two threads incremented the same absent key at the same time, both calls
\* are complete and the key counts both.
C11_Witness ==
    \E k \in raced :
        /\ \A t \in MThreads : mpc[t] = "idle"
        /\ incDone[k] = 2
        /\ mdata[k] = [has |-> TRUE, n |-> 2]

\* C12: snapshot() returns a consistent point-in-time copy, for Metrics and
\* for CmapMetrics: the returned map is a state the whole map was in at some
\* instant between the call and the return.
C12_SnapshotPointInTime ==
    \A t \in MThreads : retSnap[t].some => retSnap[t].map \in seen[t]
\* C13: every Matrix value satisfies data.length = row * col: the arguments
\* built by Matrix::new with any data, row, col, and the matrix multiply returns.
C13_MatrixInvariant ==
    /\ WellFormed(a)
    /\ WellFormed(b)
    /\ out.some => WellFormed(out)

\* C14: each task is executed at most once: it is built, enqueued, received
\* and its dot product computed at most once, whether it succeeds, fails,
\* cannot be enqueued or cannot deliver its reply.
C14_AtMostOnce ==
    \A k \in TaskIds :
        /\ created[k] <= 1
        /\ Len(enq[k]) <= 1
        /\ Len(recvBy[k]) <= 1
        /\ computed[k] <= 1

\* A finished run with a failed task, a task that could not be enqueued and
\* a reply that could not be delivered.
C14_Witness ==
    /\ Finished
    /\ dotFailed # {}
    /\ \E k \in TaskIds : created[k] = 1 /\ enq[k] = << >>
    /\ \E k \in TaskIds : chan[k].st = "undelivered"

\* C15: only orchestrator steps change the output buffer, and multiply has
\* returned Ok only when no receiver is left to read and every cell's reply
\* was received and written.
C15_OutputAfterAllReplies ==
    /\ [][data' # data => wst' = wst]_vars
    /\ [](result = "Ok" =>
            /\ receivers = << >>
            /\ \A k \in Cells : chan[k].st = "taken" /\ consumed[k] # << >> /\ written[k] # << >>)

\* multiply returned Ok for an output of at least THREAD_NUM cells.
C15_Witness == result = "Ok" /\ a.row * b.col >= THREAD_NUM /\ out.some

\* C16: a call that passes the dimension check spawns exactly THREAD_NUM
\* workers whatever the number of cells, and from the end of spawning until
\* multiply returns all THREAD_NUM worker threads are alive.
C16_FourWorkersAlive ==
    /\ pc \in {"alloc", "map", "reduce"} =>
           /\ spawned = THREAD_NUM
           /\ \A w \in Workers : wst[w] \in {"waiting", "holding"}
    /\ (pc = "done" /\ result # "DimErr") => spawned = THREAD_NUM
\* C18: under fair scheduling a call that passed the dimension check
\* eventually returns Ok or Err; a submission is never blocked, every task is
\* submitted before the first reply is awaited, and a worker holding a task
\* is never blocked.
C18_EventuallyReturns ==
    /\ (pc = "spawn") ~> (pc = "done" /\ result \in {"Ok", "RecvErr"})
    /\ [](pc = "map" => ENABLED Submit)
    /\ [](pc = "reduce" => \A k \in Cells : created[k] = 1)
    /\ [](\A w \in Workers : wst[w] = "holding" => ENABLED WorkerCompute(w))
\* The tasks whose dot_product fails, and the lowest of them.
FailingTasks == { k \in Cells \ PanicCells(a, b) : ~CellDot(a, b, k).ok }
LowestFailing == CHOOSE m \in FailingTasks : \A k \in FailingTasks : m <= k

\* C19: when dot_product fails for task k on worker w, w has exited; no
\* larger-index task routed to w is ever executed and its reply channel, once
\* created, is closed without a value; workers without a failed task do not
\* fail and run every task they were given; a call that reaches the reduce
\* phase with a failed task returns the receive error, and it does so at the
\* receiver of the lowest-index failing task, with exactly the lower cells written.
C19_FailureStopsWorkerOnly ==
    /\ [](\A k \in dotFailed :
            /\ wst[RouteOf(k)] = "failed"
            /\ \A j \in TaskIds :
                   (j > k /\ RouteOf(j) = RouteOf(k)) =>
                       /\ computed[j] = 0
                       /\ chan[j].st \in {"none", "closed"}
                       /\ created[j] = 1 => chan[j].st = "closed")
    /\ [](\A w \in Workers :
            (\A k \in dotFailed : RouteOf(k) # w) =>
                /\ wst[w] # "failed"
                /\ wst[w] = "exited" =>
                       \A j \in TaskIds : enq[j] = << w >> => computed[j] = 1 /\ j \notin dotFailed)
    /\ [](result = "RecvErr" =>
            /\ FailingTasks # {}
            /\ LowestFailing \in dotFailed
            /\ \A k \in Cells : (written[k] # << >>) <=> (k < LowestFailing))
    /\ (pc = "reduce" /\ dotFailed # {}) ~> (result = "RecvErr")

\* The lowest failing task is not task 0, its worker failed with a later task
\* of its queue closed unexecuted, another worker ran a task, and multiply
\* returned the receive error.
C19_Witness ==
    /\ result = "RecvErr"
    /\ LowestFailing > 0
    /\ \E j \in Cells : /\ j > LowestFailing
                         /\ RouteOf(j) = RouteOf(LowestFailing)
                         /\ chan[j].st = "closed"
                         /\ computed[j] = 0
    /\ \E i \in Cells : computed[i] = 1 /\ i \notin dotFailed /\ RouteOf(i) # RouteOf(LowestFailing)
\* C20: a worker whose reply cannot be delivered, the receiver being dropped,
\* neither stops nor fails by it: the step that reports the send error leaves
\* the worker waiting on its queue with the queued tasks kept, and a worker
\* ends at the closed queue only with the queue drained, every task it was
\* given computed.
C20_SendErrorKeepsWorker ==
    /\ [][\A w \in Workers :
            sendErrs'[w] > sendErrs[w] =>
                /\ wst'[w] = "waiting"
                /\ rxAlive'[w]
                /\ queue'[w] = queue[w]]_vars
    /\ [](\A w \in Workers :
            wst[w] = "exited" =>
                /\ queue[w] = << >>
                /\ \A k \in TaskIds : enq[k] = << w >> => computed[k] = 1)

\* A worker could not deliver a reply, went on to compute a later task of
\* its queue and ended at the closed queue.
C20_Witness ==
    \E w \in Workers :
        /\ sendErrs[w] > 0
        /\ wst[w] = "exited"
        /\ \E k \in TaskIds :
               /\ enq[k] = << w >>
               /\ chan[k].st = "undelivered"
               /\ \E j \in TaskIds : j > k /\ enq[j] = << w >> /\ computed[j] = 1
(***************************************************************************)
(* The producer/consumer demo (src/examples/thread1.rs): main clones tx    *)
(* into PRODUCERS_NUM producer threads, drops its own tx, spawns the       *)
(* consumer, which iterates over rx and returns 42, and joins it.          *)
(***************************************************************************)
\* let (tx, rx) = mpsc::channel();
DemoInit ==
    /\ dmain = "spawn"
    /\ DemoEntry
    /\ MultiplyIdle
    /\ MetricsIdle

\* A Sender exists: main's tx or the clone of a running producer.
SendersLeft == dtxMain \/ \E p \in Producers : dprod[p] \in {"send", "sleep"}

\* The Receiver exists until the consumer's loop has ended.
RxLeft == dcons # "done"

\* for i in 0..PRODUCERS_NUM: tx.clone() and thread::spawn of producer(i, tx).
MainSpawnProducer ==
    /\ dmain = "spawn"
    /\ dprod' = [dprod EXCEPT ![dspawned] = "send"]
    /\ dspawned' = dspawned + 1
    /\ dmain' = IF dspawned + 1 = PRODUCERS_NUM THEN "drop" ELSE "spawn"
    /\ UNCHANGED << multiplyVars, metricsVars, dtxMain, dloops, dqueue, dcons, drecv,
                    dsent, dsecret >>

\* Variant: main keeps its tx.
MainDropTx_Keep ==
    /\ dmain = "drop"
    /\ dmain' = "consumer"
    /\ UNCHANGED << multiplyVars, metricsVars, dtxMain, dspawned, dprod, dloops, dqueue,
                    dcons, drecv, dsent, dsecret >>

\* drop(tx);
MainDropTx ==
    /\ dmain = "drop"
    /\ dtxMain' = FALSE
    /\ dmain' = "consumer"
    /\ UNCHANGED << multiplyVars, metricsVars, dspawned, dprod, dloops, dqueue, dcons,
                    drecv, dsent, dsecret >>

\* let consumer = thread::spawn(..);
MainSpawnConsumer ==
    /\ dmain = "consumer"
    /\ dcons' = "running"
    /\ dmain' = "join"
    /\ UNCHANGED << multiplyVars, metricsVars, dspawned, dtxMain, dprod, dloops, dqueue,
                    drecv, dsent, dsecret >>

\* consumer.join() returns the consumer's 42; main prints it and returns.
MainJoin ==
    /\ dmain = "join"
    /\ dcons = "done"
    /\ dsecret' = 42
    /\ dmain' = "done"
    /\ UNCHANGED << multiplyVars, metricsVars, dspawned, dtxMain, dprod, dloops, dqueue,
                    dcons, drecv, dsent >>

\* tx.send(Msg::new(idx, value))?: Err, ending the producer, iff rx is gone.
ProducerSend(p, v) ==
    /\ dprod[p] = "send"
    /\ IF RxLeft
       THEN /\ dqueue' = Append(dqueue, [idx |-> p, value |-> v])
            /\ dsent' = [dsent EXCEPT ![p] = @ + 1]
            /\ dprod' = [dprod EXCEPT ![p] = "sleep"]
       ELSE /\ dprod' = [dprod EXCEPT ![p] = "exited"]
            /\ UNCHANGED << dqueue, dsent >>
    /\ UNCHANGED << multiplyVars, metricsVars, dmain, dspawned, dtxMain, dloops, dcons,
                    drecv, dsecret >>

\* After the sleep, rand::random::<u8>() % 5 == 0: break, Ok(()), tx dropped.
ProducerBreak(p) ==
    /\ dprod[p] = "sleep"
    /\ dprod' = [dprod EXCEPT ![p] = "exited"]
    /\ UNCHANGED << multiplyVars, metricsVars, dmain, dspawned, dtxMain, dloops, dqueue,
                    dcons, drecv, dsent, dsecret >>

\* After the sleep, rand::random::<u8>() % 5 # 0: the loop goes round again.
ProducerLoop(p) ==
    /\ dprod[p] = "sleep"
    /\ dloops < MaxLoops
    /\ dloops' = dloops + 1
    /\ dprod' = [dprod EXCEPT ![p] = "send"]
    /\ UNCHANGED << multiplyVars, metricsVars, dmain, dspawned, dtxMain, dqueue, dcons,
                    drecv, dsent, dsecret >>

\* for msg in rx: the next message.
ConsumerRecv ==
    /\ dcons = "running"
    /\ dqueue # << >>
    /\ drecv' = [drecv EXCEPT ![Head(dqueue).idx] = @ + 1]
    /\ dqueue' = Tail(dqueue)
    /\ UNCHANGED << multiplyVars, metricsVars, dmain, dspawned, dtxMain, dprod, dloops,
                    dcons, dsent, dsecret >>

\* The iteration over rx ends: the channel is empty and no Sender is left;
\* the closure returns 42.
ConsumerEnd ==
    /\ dcons = "running"
    /\ dqueue = << >>
    /\ ~SendersLeft
    /\ dcons' = "done"
    /\ UNCHANGED << multiplyVars, metricsVars, dmain, dspawned, dtxMain, dprod, dloops,
                    dqueue, drecv, dsent, dsecret >>

DemoMain == MainSpawnProducer \/ MainDropTx \/ MainSpawnConsumer \/ MainJoin
DemoProducer(p) == (\E v \in RandValues : ProducerSend(p, v)) \/ ProducerBreak(p) \/ ProducerLoop(p)
DemoConsumer == ConsumerRecv \/ ConsumerEnd

DemoNext ==
    \/ MainSpawnProducer
    \/ MainDropTx
    \/ MainSpawnConsumer
    \/ MainJoin
    \/ \E p \in Producers, v \in RandValues : ProducerSend(p, v)
    \/ \E p \in Producers : ProducerBreak(p)
    \/ \E p \in Producers : ProducerLoop(p)
    \/ ConsumerRecv
    \/ ConsumerEnd

DemoSpec == DemoInit /\ [][DemoNext]_vars

\* Every thread that can take a step eventually takes one.
DemoFairSpec ==
    /\ DemoSpec
    /\ WF_vars(DemoMain)
    /\ WF_vars(DemoConsumer)
    /\ \A p \in Producers : WF_vars(DemoProducer(p))

AllProducersExited == \A p \in Producers : dprod[p] = "exited"

\* C17: the consumer's loop ends, and main gets 42 from join, exactly when
\* every sender is gone: it has ended only if main dropped tx and all
\* PRODUCERS_NUM producers exited, with every sent message received; and
\* once all producers have exited it does end and main gets 42.
C17_ConsumerEndsWhenSendersGone ==
    /\ [](dcons = "done" =>
            /\ ~dtxMain
            /\ AllProducersExited
            /\ dqueue = << >>
            /\ drecv = dsent)
    /\ [](dsecret = 42 <=> dmain = "done")
    /\ [](dmain = "done" => dcons = "done")
    /\ AllProducersExited ~> (dcons = "done" /\ dsecret = 42)

\* main got 42 after the consumer received a message of every producer and
\* a second one of some producer.
C17_Witness ==
    /\ dsecret = 42
    /\ dmain = "done"
    /\ \A p \in Producers : drecv[p] >= 1
    /\ \E p \in Producers : drecv[p] >= 2
    /\ drecv = dsent
====
